---------------------------- MODULE Spec2Model ----------------------------
(***************************************************************************)
(* Scoring and ranking engine of Sibyl: the sorted Leaderboard             *)
(* (leaderboard/Leaderboard.js), the Psycho-Pass computation               *)
(* (psychoPass.js) and the Sibyl registry that feeds one into the other.   *)
(*                                                                         *)
(* JavaScript arrays are modelled as sequences; array indices are kept     *)
(* 0-based as in the source and translated on access (At).                 *)
(***************************************************************************)
EXTENDS Integers, Sequences, FiniteSets

(***************************************************************************)
(* Bounds of the model.                                                    *)
(***************************************************************************)
MaxIds == 3
MaxUsers == 2
MaxChannels == 1
MaxEvents == 2
MaxRating == 3
MaxRequests == 2

Ids == 1..MaxIds

\* scores the callers of the model rank by
Values == {0, 70, 105}

\* entry counts asked of getHighest / getLowest: up to one more than there
\* can be entries
Nums == 1..(MaxIds + 1)
Users == 1..MaxUsers
Channels == 1..MaxChannels

\* ratings the sentiment analysis gives the messages of the model
Ratings == {0, 1}

VARIABLES
  leaderboard,   \* Leaderboard.leaderboard: the sorted array of entries
  inserted,      \* ids the caller has inserted (first-time update calls)
  call,          \* the last call made on the Leaderboard and its arguments
  fault,         \* TRUE iff the last call ended in a TypeError
  result,        \* the array returned by the last getHighest / getLowest,
                 \* or holding the entry returned by the last remove
  returned,      \* the index returned by the last findIndex
  store,         \* Sibyl.store: users, channels and the two leaderboards
  fed,           \* per user, every rating recorded so far, newest first
  event,         \* the last message handled by Sibyl.newMessage
  thrown,        \* TRUE iff handling the last message threw
  events,        \* number of messages handled
  reply,         \* what newMessage returned for the last message
  input,         \* the arguments of a computePsychoPass call
  output,        \* what the call returned (Undefined before it returns)
  team,          \* the TeamServer that loads a DataStore: its phase, its
                 \* store, its Sibyl's leaderboards, its requests in flight
  userInfo,      \* asynchronous Sibyl: ids held by store.userInfo
  users,         \* asynchronous Sibyl: store.users, id -> window of messages
  slack,         \* per user, the messages Slack holds, newest first
  requests,      \* asynchronous Sibyl: the score requests made so far
  posted,        \* number of messages posted so far
  run,           \* a Leaderboard call run one loop iteration at a time: its
                 \* array, its arguments, its locals and where it stands
  monitor        \* a DataStore whose channels carry a monitorTimeout, and
                 \* per channel what it was last given and the ticks since

lbVars == <<leaderboard, inserted, call, fault, result, returned>>
sibylVars == <<store, fed, event, thrown, events, reply>>
scoreVars == <<input, output>>
bootVars == <<team>>
asyncVars == <<userInfo, users, slack, requests, posted>>
loopVars == <<run>>
monitorVars == <<monitor>>
vars == <<leaderboard, inserted, call, fault, result, returned,
          store, fed, event, thrown, events, reply, input, output,
          team, userInfo, users, slack, requests, posted, run,
          monitor>>

(***************************************************************************)
(* Helpers for JavaScript values and arrays.                               *)
(***************************************************************************)
\* The value of a parameter that was not passed.
Undefined == -1

Min(a, b) == IF a < b THEN a ELSE b
Max(a, b) == IF a < b THEN b ELSE a

\* this.leaderboard[i] is an entry (not undefined)
Defined(L, i) == 0 <= i /\ i < Len(L)

\* this.leaderboard[i], for a defined index
At(L, i) == L[i + 1]

\* Array.prototype.splice(index, 0, entry)
SpliceIn(L, index, entry) ==
  SubSeq(L, 1, index) \o <<entry>> \o SubSeq(L, index + 1, Len(L))

\* Array.prototype.splice(index, 1)
SpliceOut(L, index) ==
  SubSeq(L, 1, index) \o SubSeq(L, index + 2, Len(L))

\* Array.prototype.reverse
Reverse(s) == [i \in 1..Len(s) |-> s[Len(s) + 1 - i]]

\* Math.round((low + high) / 2) for low + high >= 0: halves round up
RoundHalf(n) == (n + 1) \div 2

(***************************************************************************)
(* Entry.js                                                                *)
(***************************************************************************)
Entry(id, value) == [id |-> id, value |-> value]

setValue(entry, newValue) == [entry EXCEPT !.value = newValue]

(***************************************************************************)
(* Leaderboard.findIndex: binary search that returns the last probed       *)
(* index when the target is not found, and 0 on an empty array.            *)
(***************************************************************************)
RECURSIVE findIndexLoop(_, _, _, _, _)
findIndexLoop(L, target, low, mid, high) ==
  IF low <= high
    THEN LET m == RoundHalf(low + high)
             value == At(L, m).value
         IN  IF value < target THEN findIndexLoop(L, target, m + 1, m, high)
             ELSE IF target < value THEN findIndexLoop(L, target, low, m, m - 1)
             ELSE m
    ELSE mid

\* binary search that ends on low, and returns 0 when nothing is found
RECURSIVE findIndexLow(_, _, _, _)
findIndexLow(L, target, low, high) ==
  IF low <= high
    THEN LET m == RoundHalf(low + high)
             value == At(L, m).value
         IN  IF value < target THEN findIndexLow(L, target, m + 1, high)
             ELSE IF target < value THEN findIndexLow(L, target, low, m - 1)
             ELSE m
    ELSE low

findIndexOrZero(L, target) ==
  LET low == findIndexLow(L, target, 0, Len(L) - 1)
  IN  IF Defined(L, low) /\ At(L, low).value = target THEN low ELSE 0

findIndex(L, target) == findIndexLoop(L, target, 0, 0, Len(L) - 1)

(***************************************************************************)
(* Leaderboard.insert                                                      *)
(***************************************************************************)
\* insert without the adjustment of lines 80-83
insertNoAdjust(L, entry) == SpliceIn(L, findIndex(L, entry.value), entry)

insert(L, entry) ==
  LET value == entry.value
      found == findIndex(L, value)
      index == IF Len(L) > 0 /\ value > At(L, found).value
                 THEN found + 1
                 ELSE found
  IN  SpliceIn(L, index, entry)

(***************************************************************************)
(* Leaderboard.remove.  The forward loop stops on an undefined entry, on   *)
(* the id, or on a different value; reading getId() of an undefined entry  *)
(* afterwards (line 105) or in the backward loop (line 109) throws.        *)
(***************************************************************************)
RECURSIVE scanForward(_, _, _, _)
scanForward(L, id, value, index) ==
  IF Defined(L, index) /\ At(L, index).id # id /\ At(L, index).value = value
    THEN scanForward(L, id, value, index + 1)
    ELSE index

\* the index the backward loop stops at; an undefined index when it throws
RECURSIVE scanBackward(_, _, _)
scanBackward(L, id, index) ==
  IF Defined(L, index) /\ At(L, index).id # id
    THEN scanBackward(L, id, index - 1)
    ELSE index

\* remove that hands the entry back without splicing it out
removeNoSplice(L, id, value) ==
  LET origin == findIndex(L, value)
      forward == scanForward(L, id, value, origin)
      index == IF ~Defined(L, forward) THEN forward
               ELSE IF At(L, forward).id # id
                 THEN scanBackward(L, id, origin - 1)
                 ELSE forward
  IN  IF Defined(L, index)
        THEN [fault |-> FALSE, leaderboard |-> L, entry |-> At(L, index)]
        ELSE [fault |-> TRUE, leaderboard |-> L, entry |-> Entry(id, value)]

\* remove whose loops also stop on an undefined entry: splice(index, 1) with
\* index past the end removes nothing, with index -1 removes the last entry
removeGuarded(L, id, value) ==
  LET origin == findIndex(L, value)
      forward == scanForward(L, id, value, origin)
      index == IF Defined(L, forward) /\ At(L, forward).id = id
                 THEN forward
                 ELSE scanBackward(L, id, origin - 1)
      at == IF Defined(L, index) THEN index ELSE Len(L) - 1
  IN  IF Len(L) > 0
        THEN [fault |-> FALSE, leaderboard |-> SpliceOut(L, at),
              entry |-> At(L, at)]
        ELSE [fault |-> TRUE, leaderboard |-> L, entry |-> Entry(id, value)]

\* remove that takes the entry findIndex lands on, whatever its id
removeAtOrigin(L, id, value) ==
  LET origin == findIndex(L, value)
  IN  IF Defined(L, origin)
        THEN [fault |-> FALSE, leaderboard |-> SpliceOut(L, origin),
              entry |-> At(L, origin)]
        ELSE [fault |-> TRUE, leaderboard |-> L, entry |-> Entry(id, value)]

\* remove that fills the hole with the last entry instead of splicing
removeSwapPop(L, id, value) ==
  LET origin == findIndex(L, value)
      forward == scanForward(L, id, value, origin)
      index == IF ~Defined(L, forward) THEN forward
               ELSE IF At(L, forward).id # id
                 THEN scanBackward(L, id, origin - 1)
                 ELSE forward
      popped == SubSeq(L, 1, Len(L) - 1)
  IN  IF Defined(L, index)
        THEN [fault |-> FALSE,
              leaderboard |-> IF index = Len(L) - 1
                                THEN popped
                                ELSE [popped EXCEPT ![index + 1] = L[Len(L)]],
              entry |-> At(L, index)]
        ELSE [fault |-> TRUE, leaderboard |-> L, entry |-> Entry(id, value)]

remove(L, id, value) ==
  LET origin == findIndex(L, value)
      forward == scanForward(L, id, value, origin)
      index == IF ~Defined(L, forward) THEN forward
               ELSE IF At(L, forward).id # id
                 THEN scanBackward(L, id, origin - 1)
                 ELSE forward
  IN  IF Defined(L, index)
        THEN [fault |-> FALSE, leaderboard |-> SpliceOut(L, index),
              entry |-> At(L, index)]
        ELSE [fault |-> TRUE, leaderboard |-> L,
              entry |-> Entry(id, value)]

(***************************************************************************)
(* Leaderboard.update                                                      *)
(***************************************************************************)
\* update without the early return of lines 23-25
updateNoShortcut(L, id, newValue, oldValue) ==
  IF oldValue = Undefined
    THEN [fault |-> FALSE, leaderboard |-> insert(L, Entry(id, newValue))]
    ELSE LET removed == remove(L, id, oldValue)
         IN  IF removed.fault
               THEN [fault |-> TRUE, leaderboard |-> L]
               ELSE [fault |-> FALSE,
                     leaderboard |->
                       insert(removed.leaderboard,
                              setValue(removed.entry, newValue))]

update(L, id, newValue, oldValue) ==
  IF newValue = oldValue
    THEN [fault |-> FALSE, leaderboard |-> L]
    ELSE IF oldValue = Undefined
      THEN [fault |-> FALSE, leaderboard |-> insert(L, Entry(id, newValue))]
      ELSE LET removed == remove(L, id, oldValue)
           IN  IF removed.fault
                 THEN [fault |-> TRUE, leaderboard |-> L]
                 ELSE [fault |-> FALSE,
                       leaderboard |->
                         insert(removed.leaderboard,
                                setValue(removed.entry, newValue))]

(***************************************************************************)
(* Leaderboard.getHighest / getLowest.  Both slice a fixed ten entries.    *)
(***************************************************************************)
Entries(s) == [i \in 1..Len(s) |-> [id |-> s[i].id, value |-> s[i].value]]

getHighest(L, num) ==
  Reverse(Entries(SubSeq(L, Max(1, Len(L) - 10 + 1), Len(L))))

getLowest(L, num) ==
  Entries(SubSeq(L, 1, Min(10, Len(L))))

(***************************************************************************)
(* psychoPass.js.  Ratings are integers in the model.  The weights of the  *)
(* channel class are multiples of one half, so weights and weighted sums   *)
(* are kept in halves: getWeights gives twice each weight of the source    *)
(* and computePsychoPass floors (2 * 70 + sum) / 2.                        *)
(***************************************************************************)
NUM_USER_MESSAGES == 10
NUM_CHANNEL_MESSAGES == 20

\* twice weights10 = [5, 5, 5, 4, 4, 3, 3, 2, 2, 2]
weights10 == <<10, 10, 10, 8, 8, 6, 6, 4, 4, 4>>

\* twice weights20 = [2.5 x5, 2 x5, 1.5 x5, 1 x5]
weights20 == <<5, 5, 5, 5, 5, 4, 4, 4, 4, 4, 3, 3, 3, 3, 3, 2, 2, 2, 2, 2>>

\* getWeights with each vector in the opposite order
getWeightsReversed(num) ==
  IF num = 10 THEN Reverse(weights10)
  ELSE IF num = 20 THEN Reverse(weights20)
  ELSE <<>>

\* getWeights whose capacity-10 vector steps down every two positions
getWeightsPairs(num) ==
  IF num = 10 THEN <<10, 10, 8, 8, 6, 6, 4, 4, 2, 2>>
  ELSE IF num = 20 THEN weights20
  ELSE <<>>

getWeights(num) ==
  IF num = 10 THEN weights10
  ELSE IF num = 20 THEN weights20
  ELSE <<>>

\* reducer that subtracts the weighted rating from the sum
reducerNegated(weights, sum, currentMessageRating, index) ==
  sum - At(weights, index) * currentMessageRating

\* reducer(sum, currentMessageRating, index), index 0-based, in halves
reducer(weights, sum, currentMessageRating, index) ==
  sum + At(weights, index) * currentMessageRating

\* messageRatings.reduce(reducer, 0): a left fold from index 0
RECURSIVE reduce(_, _, _, _)
reduce(weights, messageRatings, sum, index) ==
  IF index < Len(messageRatings)
    THEN reduce(weights, messageRatings,
                reducer(weights, sum, At(messageRatings, index), index),
                index + 1)
    ELSE sum

\* computePsychoPass with Math.round in place of Math.floor
computePsychoPassRound(messageRatings, num) ==
  LET weights == getWeights(num)
      weightedRatingSum == reduce(weights, messageRatings, 0, 0)
      psychoPass == (2 * 70 + weightedRatingSum + 1) \div 2
  IN  IF psychoPass < 0 THEN 0 ELSE psychoPass

\* computePsychoPass without the test of lines 78-80
computePsychoPassNoClamp(messageRatings, num) ==
  LET weights == getWeights(num)
      weightedRatingSum == reduce(weights, messageRatings, 0, 0)
  IN  (2 * 70 + weightedRatingSum) \div 2

computePsychoPass(messageRatings, num) ==
  LET weights == getWeights(num)
      weightedRatingSum == reduce(weights, messageRatings, 0, 0)
      psychoPass == (2 * 70 + weightedRatingSum) \div 2
  IN  IF psychoPass < 0 THEN 0 ELSE psychoPass

computeUserPsychoPass(messageRatings) ==
  computePsychoPass(messageRatings, NUM_USER_MESSAGES)

computeChannelPsychoPass(messageRatings) ==
  computePsychoPass(messageRatings, NUM_CHANNEL_MESSAGES)

(***************************************************************************)
(* Sibyl.js: the store, its seeding and updateUser.                        *)
(***************************************************************************)
\* messageInfo.map(({ rating }) => rating)
RatingsOf(messageInfo) == [i \in 1..Len(messageInfo) |-> messageInfo[i].rating]

\* unshift and pop with the test len >= NUM_USER_MESSAGES
unshiftCappedEarly(messageInfo, info) ==
  LET grown == <<info>> \o messageInfo
  IN  IF Len(grown) >= NUM_USER_MESSAGES
        THEN SubSeq(grown, 1, Len(grown) - 1)
        ELSE grown

\* Array.prototype.unshift followed by pop when the length exceeds the cap
unshiftCapped(messageInfo, info) ==
  LET grown == <<info>> \o messageInfo
  IN  IF Len(grown) > NUM_USER_MESSAGES
        THEN SubSeq(grown, 1, Len(grown) - 1)
        ELSE grown

\* compileUserData / compileChannelData: the record stored for an entity
\* whose fetched history has the given ratings (newest first)
compileUserData(ratings) ==
  [psychoPass |-> computeUserPsychoPass(ratings),
   messageInfo |-> [i \in 1..Len(ratings) |-> [rating |-> ratings[i]]]]

compileChannelData(ratings) ==
  [psychoPass |-> computeChannelPsychoPass(ratings),
   messageInfo |-> [i \in 1..Len(ratings) |-> [rating |-> ratings[i]]]]

\* initializeUserLeaderboard / initializeChannelLeaderboard: forEach over the
\* map in its insertion order, update(id, psychoPass) without an old value
\* seeding that appends each entry instead of calling update
RECURSIVE initializeLeaderboardPush(_, _, _, _)
initializeLeaderboardPush(L, data, order, i) ==
  IF i > Len(order)
    THEN L
    ELSE initializeLeaderboardPush(
           Append(L, Entry(order[i], data[order[i]].psychoPass)),
           data, order, i + 1)

RECURSIVE initializeLeaderboard(_, _, _, _)
initializeLeaderboard(L, data, order, i) ==
  IF i > Len(order)
    THEN L
    ELSE initializeLeaderboard(
           update(L, order[i], data[order[i]].psychoPass, Undefined).leaderboard,
           data, order, i + 1)

\* new Sibyl(web, userData, channelData)
constructor(userData, userOrder, channelData, channelOrder) ==
  [users |-> userData,
   channels |-> channelData,
   leaderboards |->
     [users |-> initializeLeaderboard(<<>>, userData, userOrder, 1),
      channels |-> initializeLeaderboard(<<>>, channelData, channelOrder, 1)]]

\* updateUser that stores the new psychoPass before it calls update
updateUserEager(s, id, rating) ==
  LET info == [rating |-> rating]
      oldPsychoPass == s.users[id].psychoPass
      messageInfo == unshiftCapped(s.users[id].messageInfo, info)
      newPsychoPass == computeUserPsychoPass(RatingsOf(messageInfo))
      updated == update(s.leaderboards.users, id, newPsychoPass, oldPsychoPass)
      absorbed == [s EXCEPT !.users[id].messageInfo = messageInfo,
                            !.users[id].psychoPass = newPsychoPass]
  IN  IF updated.fault
        THEN [thrown |-> TRUE, store |-> absorbed]
        ELSE [thrown |-> FALSE,
              store |-> [absorbed EXCEPT
                           !.leaderboards.users = updated.leaderboard]]

\* updateUser whose users share one messageInfo array
updateUserAliased(s, id, rating) ==
  LET info == [rating |-> rating]
      oldPsychoPass == s.users[id].psychoPass
      messageInfo == unshiftCapped(s.users[id].messageInfo, info)
      newPsychoPass == computeUserPsychoPass(RatingsOf(messageInfo))
      updated == update(s.leaderboards.users, id, newPsychoPass, oldPsychoPass)
      absorbed == [s EXCEPT
                     !.users = [u \in DOMAIN s.users |->
                                  [s.users[u] EXCEPT
                                     !.messageInfo = messageInfo]]]
  IN  IF updated.fault
        THEN [thrown |-> TRUE, store |-> absorbed]
        ELSE [thrown |-> FALSE,
              store |-> [absorbed EXCEPT
                           !.leaderboards.users = updated.leaderboard,
                           !.users[id].psychoPass = newPsychoPass]]

\* updateUser(id, message, ...) for a message rated rating.  The window is
\* changed in place before update runs; when update throws, the assignment
\* of line 357 is not reached.
updateUser(s, id, rating) ==
  LET info == [rating |-> rating]
      oldPsychoPass == s.users[id].psychoPass
      messageInfo == unshiftCapped(s.users[id].messageInfo, info)
      newPsychoPass == computeUserPsychoPass(RatingsOf(messageInfo))
      updated == update(s.leaderboards.users, id, newPsychoPass, oldPsychoPass)
      absorbed == [s EXCEPT !.users[id].messageInfo = messageInfo]
  IN  IF updated.fault
        THEN [thrown |-> TRUE, store |-> absorbed]
        ELSE [thrown |-> FALSE,
              store |-> [absorbed EXCEPT
                           !.leaderboards.users = updated.leaderboard,
                           !.users[id].psychoPass = newPsychoPass]]

\* an id that parseCommand reads out of a message and the store has no entry
\* for
UnknownId == 0

\* what newMessage returns: null, or the data its response string is built of
NoReply == [kind |-> "null", id |-> 0, psychoPass |-> Undefined,
            lowest |-> <<>>, highest |-> <<>>]

\* parseCommand(message): null or { command, id }
NoCommand == [command |-> "none", id |-> 0]

\* psychoPassUser(id): getUserName reads a field of this.store.users.get(id)
\* and throws a TypeError when the map has no such id
psychoPassUser(s, id) ==
  IF id \in DOMAIN s.users
    THEN [thrown |-> FALSE,
          reply |-> [NoReply EXCEPT !.kind = "user", !.id = id,
                                    !.psychoPass = s.users[id].psychoPass]]
    ELSE [thrown |-> TRUE, reply |-> NoReply]

\* psychoPassChannel(id): getChannelName throws likewise
psychoPassChannel(s, id) ==
  IF id \in DOMAIN s.channels
    THEN [thrown |-> FALSE,
          reply |-> [NoReply EXCEPT !.kind = "channel", !.id = id,
                                    !.psychoPass = s.channels[id].psychoPass]]
    ELSE [thrown |-> TRUE, reply |-> NoReply]

\* leaderboardUsers / leaderboardChannels: getHighest() and getLowest() of
\* the leaderboard; every id on it has a store entry to take the name from
leaderboardReply(kind, L) ==
  [thrown |-> FALSE,
   reply |-> [NoReply EXCEPT !.kind = kind,
                             !.lowest = getLowest(L, Undefined),
                             !.highest = getHighest(L, Undefined)]]

\* the switch of newMessage over the parsed command
respond(s, commandInfo) ==
  CASE commandInfo.command = "user" -> psychoPassUser(s, commandInfo.id)
    [] commandInfo.command = "channel" -> psychoPassChannel(s, commandInfo.id)
    [] commandInfo.command = "help" ->
         [thrown |-> FALSE, reply |-> [NoReply EXCEPT !.kind = "help"]]
    [] commandInfo.command = "users" ->
         leaderboardReply("users", s.leaderboards.users)
    [] commandInfo.command = "channels" ->
         leaderboardReply("channels", s.leaderboards.channels)
    [] OTHER -> [thrown |-> FALSE, reply |-> NoReply]

\* newMessage that answers the command before it calls updateUser
newMessageAnswerFirst(s, id, rating, commandInfo) ==
  LET response == respond(s, commandInfo)
      updated == updateUser(s, id, rating)
  IN  IF response.thrown
        THEN [thrown |-> TRUE, store |-> s, reply |-> NoReply]
        ELSE [thrown |-> updated.thrown, store |-> updated.store,
              reply |-> IF updated.thrown THEN NoReply ELSE response.reply]

\* newMessage(id, message, channel, timestamp) for a message that
\* computeMessageRating rates rating and parseCommand parses to commandInfo:
\* updateUser, then the reply; a throw of updateUser ends the handler
newMessage(s, id, rating, commandInfo) ==
  LET updated == updateUser(s, id, rating)
      response == respond(updated.store, commandInfo)
  IN  IF updated.thrown
        THEN [thrown |-> TRUE, store |-> updated.store, reply |-> NoReply]
        ELSE [thrown |-> response.thrown, store |-> updated.store,
              reply |-> response.reply]

(***************************************************************************)
(* The Leaderboard class driven by an arbitrary caller.                    *)
(***************************************************************************)
NoCall == [op |-> "new", id |-> 0, newValue |-> Undefined,
           oldValue |-> Undefined, num |-> 0, valid |-> TRUE,
           target |-> Undefined, value |-> Undefined]

NoEvent == [id |-> 0, rating |-> 0, commandInfo |-> NoCommand]

\* a Sibyl that was never constructed
NoStore == [users |-> <<>>, channels |-> <<>>,
            leaderboards |-> [users |-> <<>>, channels |-> <<>>]]

NoInput == [messageRatings |-> <<>>, num |-> 0]

\* a Leaderboard right after its constructor
InitLeaderboard ==
  /\ leaderboard = <<>>
  /\ inserted = {}
  /\ call = NoCall
  /\ fault = FALSE
  /\ result = <<>>
  /\ returned = Undefined

NoSibyl ==
  /\ store = NoStore
  /\ fed = <<>>
  /\ event = NoEvent
  /\ thrown = FALSE
  /\ events = 0
  /\ reply = NoReply

NoScore ==
  /\ input = NoInput
  /\ output = Undefined

\* no MESSAGE event handled yet
NoMessage == [subtype |-> "", user |-> 0, channel |-> 0, rating |-> 0,
              commandInfo |-> NoCommand]

\* a TeamServer that was never constructed
NoTeam ==
  team = [phase |-> "none", web |-> FALSE, store |-> <<>>,
          userLeaderboard |-> <<>>, channelLeaderboard |-> <<>>,
          listing |-> {}, compiling |-> [users |-> {}, channels |-> {}],
          handled |-> 0, thrown |-> FALSE, responses |-> <<>>,
          message |-> NoMessage]

\* an asynchronous Sibyl that was never constructed
NoAsync ==
  /\ userInfo = {}
  /\ users = <<>>
  /\ slack = <<>>
  /\ requests = <<>>
  /\ posted = 0

\* no call is being run
Idle(L) ==
  [pc |-> "idle", op |-> "none", stage |-> "none", L |-> L, size |-> Len(L),
   id |-> 0, value |-> Undefined, newValue |-> Undefined,
   entry |-> Entry(0, Undefined), low |-> 0, mid |-> 0, high |-> 0,
   origin |-> 0, index |-> 0, steps |-> 0, out |-> Undefined]

NoRun == run = Idle(<<>>)

\* new DataStore() with nothing added, no call made and nothing thrown
NewMonitor ==
  [store |-> [users |-> <<>>, channels |-> <<>>], thrown |-> FALSE,
   given |-> <<>>, ticks |-> <<>>]

NoMonitor == monitor = NewMonitor

Init ==
  /\ InitLeaderboard
  /\ NoSibyl
  /\ NoScore
  /\ NoTeam
  /\ NoAsync
  /\ NoRun
  /\ NoMonitor

\* update(id, newValue, oldValue) as the caller sees it; valid records whether
\* the caller passed the value id's entry holds (or none on the first call)
DoUpdate(id, newValue, oldValue, valid) ==
  LET r == update(leaderboard, id, newValue, oldValue)
  IN  /\ leaderboard' = r.leaderboard
      /\ fault' = r.fault
      /\ call' = [NoCall EXCEPT !.op = "update", !.id = id,
                                !.newValue = newValue, !.oldValue = oldValue,
                                !.valid = valid]
      /\ result' = <<>>
      /\ returned' = Undefined

\* first call for an id: no old value
UpdateFirst ==
  \E id \in Ids \ inserted, newValue \in Values :
    /\ DoUpdate(id, newValue, Undefined, TRUE)
    /\ inserted' = inserted \cup {id}
    /\ UNCHANGED <<sibylVars, scoreVars, bootVars, asyncVars, loopVars,
                   monitorVars>>

\* later call for an id, passing the value its entry holds
UpdateKnown ==
  \E i \in 1..Len(leaderboard), newValue \in Values :
    /\ DoUpdate(leaderboard[i].id, newValue, leaderboard[i].value, TRUE)
    /\ UNCHANGED inserted
    /\ UNCHANGED <<sibylVars, scoreVars, bootVars, asyncVars, loopVars,
                   monitorVars>>

\* a call that breaks the caller's contract: no entry holds (id, oldValue)
UpdateViolation ==
  \E id \in Ids, newValue \in Values, oldValue \in Values :
    /\ \A i \in 1..Len(leaderboard) :
         ~(leaderboard[i].id = id /\ leaderboard[i].value = oldValue)
    /\ DoUpdate(id, newValue, oldValue, FALSE)
    /\ UNCHANGED inserted
    /\ UNCHANGED <<sibylVars, scoreVars, bootVars, asyncVars, loopVars,
                   monitorVars>>

GetHighest ==
  \E num \in Nums :
    /\ result' = getHighest(leaderboard, num)
    /\ call' = [NoCall EXCEPT !.op = "getHighest", !.num = num]
    /\ fault' = FALSE
    /\ returned' = Undefined
    /\ UNCHANGED <<leaderboard, inserted>>
    /\ UNCHANGED <<sibylVars, scoreVars, bootVars, asyncVars, loopVars,
                   monitorVars>>

GetLowest ==
  \E num \in Nums :
    /\ result' = getLowest(leaderboard, num)
    /\ call' = [NoCall EXCEPT !.op = "getLowest", !.num = num]
    /\ fault' = FALSE
    /\ returned' = Undefined
    /\ UNCHANGED <<leaderboard, inserted>>
    /\ UNCHANGED <<sibylVars, scoreVars, bootVars, asyncVars, loopVars,
                   monitorVars>>

\* findIndex(target) on its own
FindIndex ==
  \E target \in Values :
    /\ returned' = findIndex(leaderboard, target)
    /\ call' = [NoCall EXCEPT !.op = "findIndex", !.target = target]
    /\ fault' = FALSE
    /\ result' = <<>>
    /\ UNCHANGED <<leaderboard, inserted>>
    /\ UNCHANGED <<sibylVars, scoreVars, bootVars, asyncVars, loopVars,
                   monitorVars>>

\* remove(id, value) on its own, with any id and any value
Remove ==
  \E id \in Ids, value \in Values :
    /\ LET r == remove(leaderboard, id, value)
       IN  /\ leaderboard' = r.leaderboard
           /\ fault' = r.fault
           /\ result' = IF r.fault THEN <<>> ELSE <<r.entry>>
           /\ inserted' = IF r.fault THEN inserted ELSE inserted \ {r.entry.id}
    /\ call' = [NoCall EXCEPT !.op = "remove", !.id = id, !.value = value]
    /\ returned' = Undefined
    /\ UNCHANGED <<sibylVars, scoreVars, bootVars, asyncVars, loopVars,
                   monitorVars>>

Next ==
  \/ UpdateFirst
  \/ UpdateKnown
  \/ UpdateViolation
  \/ GetHighest
  \/ GetLowest
  \/ FindIndex
  \/ Remove

Spec == Init /\ [][Next]_vars

(***************************************************************************)
(* Sibyl constructed from seeded user and channel data, then fed messages. *)
(***************************************************************************)
Const(n, r) == [i \in 1..n |-> r]

\* histories the bootstrap fetch returns (at most the class's count)
UserSeeds == {<<>>, Const(NUM_USER_MESSAGES - 1, 1)}

ChannelSeeds == {<<>>, Const(NUM_CHANNEL_MESSAGES, 1)}

\* the orders in which the entries of a map over S can have been set
Orders(S) ==
  {o \in [1..Cardinality(S) -> S] : \A i, j \in DOMAIN o : o[i] = o[j] => i = j}

InitSibyl ==
  /\ InitLeaderboard
  /\ NoScore
  /\ NoTeam
  /\ NoAsync
  /\ NoRun
  /\ NoMonitor
  /\ \E userSeed \in [Users -> UserSeeds],
        channelSeed \in [Channels -> ChannelSeeds],
        userOrder \in Orders(Users),
        channelOrder \in Orders(Channels) :
       /\ store = constructor([u \in Users |-> compileUserData(userSeed[u])],
                              userOrder,
                              [c \in Channels |->
                                 compileChannelData(channelSeed[c])],
                              channelOrder)
       /\ fed = userSeed
  /\ event = NoEvent
  /\ thrown = FALSE
  /\ events = 0
  /\ reply = NoReply

\* the commands parseCommand finds: a score query for a user or a channel id,
\* known to the store or not, help, and the two leaderboards
Commands ==
  {[command |-> "user", id |-> id] : id \in Users \cup {UnknownId}}
    \cup {[command |-> "channel", id |-> id] : id \in Channels \cup {UnknownId}}
    \cup {[command |-> c, id |-> 0] : c \in {"help", "users", "channels"}}

\* the messages of the model: chat and commands, of either rating (the text
\* after a command is rated with it)
Messages ==
  {[rating |-> r, commandInfo |-> c] : r \in Ratings, c \in {NoCommand} \cup Commands}

\* a MESSAGE event from a known user.  A run of the model ends with its first
\* command: a command leaves the store as the chat message of its rating
\* does, so every store and every reply is still reached.
NewMessage ==
  \E id \in Users, message \in Messages :
    /\ events < MaxEvents
    /\ event.commandInfo = NoCommand
    /\ LET r == newMessage(store, id, message.rating, message.commandInfo)
       IN  /\ store' = r.store
           /\ thrown' = r.thrown
           /\ reply' = r.reply
    /\ fed' = [fed EXCEPT ![id] = <<message.rating>> \o @]
    /\ event' = [id |-> id, rating |-> message.rating,
                 commandInfo |-> message.commandInfo]
    /\ events' = events + 1
    /\ UNCHANGED <<lbVars, scoreVars, bootVars, asyncVars, loopVars,
                   monitorVars>>

NextSibyl == NewMessage

SpecSibyl == InitSibyl /\ [][NextSibyl]_vars

(***************************************************************************)
(* computePsychoPass applied to windows of either class.                   *)
(***************************************************************************)
ScoreRatings == (-MaxRating)..MaxRating

\* the window of length len holding base everywhere but r at position at
Window(len, base, at, r) == [i \in 1..len |-> IF i = at THEN r ELSE base]

InitScore ==
  /\ InitLeaderboard
  /\ NoSibyl
  /\ NoTeam
  /\ NoAsync
  /\ NoRun
  /\ NoMonitor
  /\ \E num \in {NUM_USER_MESSAGES, NUM_CHANNEL_MESSAGES} :
       \E len \in 0..num, base \in ScoreRatings, r \in ScoreRatings :
         \E at \in 1..Max(1, len) :
           input = [messageRatings |-> Window(len, base, at, r), num |-> num]
  /\ output = Undefined

ComputeScore ==
  /\ output = Undefined
  /\ output' = computePsychoPass(input.messageRatings, input.num)
  /\ UNCHANGED <<input, lbVars, sibylVars, bootVars, asyncVars, loopVars,
                 monitorVars>>

NextScore == ComputeScore

SpecScore == InitScore /\ [][NextScore]_vars

(***************************************************************************)
(* The TeamServer that constructs a DataStore and a Sibyl over it and then *)
(* loads the store (TeamServer.js with initializeDataStore, DataStore.js,  *)
(* Sibyl.js with constructor(store)).                                      *)
(***************************************************************************)
\* Map.prototype.set
MapSet(map, key, value) ==
  [k \in DOMAIN map \cup {key} |-> IF k = key THEN value ELSE map[k]]

\* new DataStore(): two empty Maps and no other field
DataStore == [users |-> <<>>, channels |-> <<>>]

addUser(ds, id, info) == [ds EXCEPT !.users = MapSet(@, id, info)]

addChannel(ds, id, info) == [ds EXCEPT !.channels = MapSet(@, id, info)]

\* this.store.leaderboards is an object; reading a property of it throws a
\* TypeError when it is not
HasLeaderboards(ds) == "leaderboards" \in DOMAIN ds

\* new Sibyl(store): two Leaderboards of its own, then for every entity the
\* store holds at that moment an update on this.store.leaderboards
SibylOver(ds) ==
  [thrown |-> /\ ~HasLeaderboards(ds)
              /\ DOMAIN ds.users \cup DOMAIN ds.channels # {},
   userLeaderboard |-> <<>>,
   channelLeaderboard |-> <<>>]

\* unshift followed by pop when the length exceeds NUM_CHANNEL_MESSAGES
unshiftCappedChannel(messageInfo, info) ==
  LET grown == <<info>> \o messageInfo
  IN  IF Len(grown) > NUM_CHANNEL_MESSAGES
        THEN SubSeq(grown, 1, Len(grown) - 1)
        ELSE grown

\* updateChannel(id, message, timestamp) for a message rated rating: the
\* window is changed in place, then this.store.leaderboards is read
updateChannel(ds, id, rating) ==
  LET oldPsychoPass == ds.channels[id].psychoPass
      messageInfo == unshiftCappedChannel(ds.channels[id].messageInfo,
                                          [rating |-> rating])
      newPsychoPass == computeChannelPsychoPass(RatingsOf(messageInfo))
      absorbed == [ds EXCEPT !.channels[id].messageInfo = messageInfo]
  IN  IF ~HasLeaderboards(ds)
        THEN [thrown |-> TRUE, store |-> absorbed]
        ELSE LET updated == update(ds.leaderboards.channels, id,
                                   newPsychoPass, oldPsychoPass)
             IN  IF updated.fault
                   THEN [thrown |-> TRUE, store |-> absorbed]
                   ELSE [thrown |-> FALSE,
                         store |-> [absorbed EXCEPT
                           !.leaderboards.channels = updated.leaderboard,
                           !.channels[id].psychoPass = newPsychoPass]]

\* updateUser(id, message, channel, timestamp) of the same class
updateStoreUser(ds, id, rating) ==
  LET oldPsychoPass == ds.users[id].psychoPass
      messageInfo == unshiftCapped(ds.users[id].messageInfo,
                                   [rating |-> rating])
      newPsychoPass == computeUserPsychoPass(RatingsOf(messageInfo))
      absorbed == [ds EXCEPT !.users[id].messageInfo = messageInfo]
  IN  IF ~HasLeaderboards(ds)
        THEN [thrown |-> TRUE, store |-> absorbed]
        ELSE LET updated == update(ds.leaderboards.users, id,
                                   newPsychoPass, oldPsychoPass)
             IN  IF updated.fault
                   THEN [thrown |-> TRUE, store |-> absorbed]
                   ELSE [thrown |-> FALSE,
                         store |-> [absorbed EXCEPT
                           !.leaderboards.users = updated.leaderboard,
                           !.users[id].psychoPass = newPsychoPass]]

\* the switch of newMessage over the parsed command
respondFromStore(ds, commandInfo) ==
  CASE commandInfo.command = "user" -> psychoPassUser(ds, commandInfo.id)
    [] commandInfo.command = "channel" -> psychoPassChannel(ds, commandInfo.id)
    [] commandInfo.command = "help" ->
         [thrown |-> FALSE, reply |-> [NoReply EXCEPT !.kind = "help"]]
    [] commandInfo.command = "users" ->
         IF HasLeaderboards(ds)
           THEN leaderboardReply("users", ds.leaderboards.users)
           ELSE [thrown |-> TRUE, reply |-> NoReply]
    [] commandInfo.command = "channels" ->
         IF HasLeaderboards(ds)
           THEN leaderboardReply("channels", ds.leaderboards.channels)
           ELSE [thrown |-> TRUE, reply |-> NoReply]
    [] OTHER -> [thrown |-> FALSE, reply |-> NoReply]

\* newMessage(id, message, channel, timestamp) of the same class, in the order
\* of its statements.  First: a message in a channel of the store updates
\* that channel
updateChannelIfPublic(ds, channel, rating) ==
  IF channel \in DOMAIN ds.channels
    THEN updateChannel(ds, channel, rating)
    ELSE [thrown |-> FALSE, store |-> ds]

\* then, in the same branch, the user who wrote it
updateUserIfPublic(channelDone, isChannelPublic, id, rating) ==
  IF isChannelPublic /\ ~channelDone.thrown
    THEN updateStoreUser(channelDone.store, id, rating)
    ELSE channelDone

\* the responses array newMessage returns, empty when no command was parsed
responsesOf(userDone, response) ==
  IF userDone.thrown \/ response.thrown
    THEN [thrown |-> TRUE, store |-> userDone.store, responses |-> <<>>]
    ELSE [thrown |-> FALSE, store |-> userDone.store,
          responses |-> IF response.reply = NoReply
                          THEN <<>>
                          ELSE <<response.reply>>]

\* last, the parsed command is answered from the store the updates left
respondAfterUpdates(userDone, commandInfo) ==
  responsesOf(userDone, respondFromStore(userDone.store, commandInfo))

newMessageFromStore(ds, id, rating, commandInfo, channel) ==
  respondAfterUpdates(
    updateUserIfPublic(updateChannelIfPublic(ds, channel, rating),
                       channel \in DOMAIN ds.channels, id, rating),
    commandInfo)

\* a channel id that is no key of store.channels: a group or a dm
PrivateChannel == 0

\* new TeamServer(token).  The methods that load the store call web, a name
\* the module neither imports nor declares: whether it resolves depends on
\* the global scope the module is run in, so both cases are followed.
InitBoot ==
  /\ InitLeaderboard
  /\ NoSibyl
  /\ NoScore
  /\ NoAsync
  /\ NoRun
  /\ NoMonitor
  /\ \E web \in BOOLEAN :
       team = [phase |-> "new", web |-> web, store |-> <<>>,
               userLeaderboard |-> <<>>, channelLeaderboard |-> <<>>,
               listing |-> {}, compiling |-> [users |-> {}, channels |-> {}],
               handled |-> 0, thrown |-> FALSE, responses |-> <<>>,
               message |-> NoMessage]

\* the constructor: the store, the Sibyl over it, then initializeDataStore,
\* which sends users.list and channels.list or throws a ReferenceError
Construct ==
  /\ team.phase = "new"
  /\ LET sibyl == SibylOver(DataStore)
     IN  team' = [team EXCEPT
           !.phase = IF sibyl.thrown \/ ~team.web THEN "thrown" ELSE "loading",
           !.store = DataStore,
           !.userLeaderboard = sibyl.userLeaderboard,
           !.channelLeaderboard = sibyl.channelLeaderboard,
           !.listing = IF sibyl.thrown \/ ~team.web
                         THEN {}
                         ELSE {"users", "channels"}]
  /\ UNCHANGED <<lbVars, sibylVars, scoreVars, asyncVars, loopVars,
                 monitorVars>>

\* users.list resolves: one search.messages request per member
UsersListed ==
  /\ team.phase = "loading"
  /\ "users" \in team.listing
  /\ team' = [team EXCEPT !.listing = @ \ {"users"},
                          !.compiling.users = Users]
  /\ UNCHANGED <<lbVars, sibylVars, scoreVars, asyncVars, loopVars,
                 monitorVars>>

\* channels.list resolves: one channels.history request per channel
ChannelsListed ==
  /\ team.phase = "loading"
  /\ "channels" \in team.listing
  /\ team' = [team EXCEPT !.listing = @ \ {"channels"},
                          !.compiling.channels = Channels]
  /\ UNCHANGED <<lbVars, sibylVars, scoreVars, asyncVars, loopVars,
                 monitorVars>>

\* a member's search resolves: compileUserData, then store.addUser
UserCompiled ==
  \E id \in team.compiling.users, seed \in UserSeeds :
    /\ team.phase = "loading"
    /\ team' = [team EXCEPT
         !.compiling.users = @ \ {id},
         !.store = addUser(@, id, compileUserData(seed))]
    /\ UNCHANGED <<lbVars, sibylVars, scoreVars, asyncVars, loopVars,
                   monitorVars>>

\* a channel's history resolves: compileChannelData, then store.addChannel
ChannelCompiled ==
  \E id \in team.compiling.channels, seed \in ChannelSeeds :
    /\ team.phase = "loading"
    /\ team' = [team EXCEPT
         !.compiling.channels = @ \ {id},
         !.store = addChannel(@, id, compileChannelData(seed))]
    /\ UNCHANGED <<lbVars, sibylVars, scoreVars, asyncVars, loopVars,
                   monitorVars>>

\* a request in flight is rejected: Promise.all rejects, the catch of the
\* constructor logs and calls process.exit(1)
LoadFails ==
  /\ team.phase = "loading"
  /\ team.listing # {}
       \/ team.compiling.users \cup team.compiling.channels # {}
  /\ team' = [team EXCEPT !.phase = "exited"]
  /\ UNCHANGED <<lbVars, sibylVars, scoreVars, asyncVars, loopVars,
                 monitorVars>>

\* every request has resolved: bindEventHandlers and rtm.start
Start ==
  /\ team.phase = "loading"
  /\ team.listing = {}
  /\ team.compiling.users \cup team.compiling.channels = {}
  /\ team' = [team EXCEPT !.phase = "started"]
  /\ UNCHANGED <<lbVars, sibylVars, scoreVars, asyncVars, loopVars,
                 monitorVars>>

\* handleMessage for a MESSAGE event: bot messages are dropped, every other is
\* handed to newMessage and each response is sent.  As in NewMessage, a run
\* ends with its first command.
HandleMessage ==
  \E subtype \in {"", "bot_message"}, user \in Users, message \in Messages,
     channel \in Channels \cup {PrivateChannel} :
    /\ team.phase = "started"
    /\ team.handled < MaxEvents
    /\ team.message.commandInfo = NoCommand
    /\ LET r == newMessageFromStore(team.store, user, message.rating,
                                    message.commandInfo, channel)
           handled == [subtype |-> subtype, user |-> user,
                       channel |-> channel, rating |-> message.rating,
                       commandInfo |-> message.commandInfo]
       IN  team' = IF subtype = "bot_message"
                     THEN [team EXCEPT !.handled = @ + 1,
                                       !.thrown = FALSE,
                                       !.responses = <<>>,
                                       !.message = handled]
                     ELSE [team EXCEPT !.handled = @ + 1,
                                       !.store = r.store,
                                       !.thrown = r.thrown,
                                       !.responses = r.responses,
                                       !.message = handled]
    /\ UNCHANGED <<lbVars, sibylVars, scoreVars, asyncVars, loopVars,
                   monitorVars>>

NextBoot ==
  \/ Construct
  \/ UsersListed
  \/ ChannelsListed
  \/ UserCompiled
  \/ ChannelCompiled
  \/ LoadFails
  \/ Start
  \/ HandleMessage

SpecBoot == InitBoot /\ [][NextBoot]_vars

(***************************************************************************)
(* The TeamServer that waits for Sibyl.createSibyl (TeamServer.js with     *)
(* createSibyl, over the Sibyl of newMessage above).  this.sibyl is the    *)
(* variable store once it is set; the RTM client delivers MESSAGE events   *)
(* to the bound handler from rtm.start on.                                 *)
(***************************************************************************)
\* a TeamServer before its constructor has run
NewServer ==
  [phase |-> "new", rtm |-> "idle", bound |-> FALSE, sibyl |-> FALSE,
   pending |-> {}, userData |-> <<>>, userOrder |-> <<>>,
   channelData |-> <<>>, channelOrder |-> <<>>, code |-> Undefined,
   handled |-> 0, thrown |-> FALSE, sent |-> <<>>, message |-> NoMessage]

\* a constructor that starts the RTM client right after binding the handlers
TeamServerConstructorStarts(t) ==
  [t EXCEPT !.phase = "creating", !.bound = TRUE, !.rtm = "started",
            !.pending = {"userData", "channelData"}]

\* constructor(token): bindEventHandlers, then createSibyl, which starts the
\* two fetches of getInitialUserData and getInitialChannelData
TeamServerConstructor(t) ==
  [t EXCEPT !.phase = "creating", !.bound = TRUE,
            !.pending = {"userData", "channelData"}]

\* handleMessage without the test of the subtype
handleMessageAnySubtype(t, s, subtype, user, message) ==
  IF ~t.sibyl
    THEN [ran |-> FALSE, thrown |-> TRUE, store |-> s, reply |-> NoReply]
    ELSE LET r == newMessage(s, user, message.rating, message.commandInfo)
         IN  [ran |-> TRUE, thrown |-> r.thrown, store |-> r.store,
              reply |-> r.reply]

\* handleMessage({ subtype, user, text, channel, ts }): a bot message
\* returns at once; reading newMessage of an undefined this.sibyl throws a
\* TypeError; a response that is not null is sent
handleMessage(t, s, subtype, user, message) ==
  IF subtype = "bot_message"
    THEN [ran |-> FALSE, thrown |-> FALSE, store |-> s, reply |-> NoReply]
    ELSE IF ~t.sibyl
      THEN [ran |-> FALSE, thrown |-> TRUE, store |-> s, reply |-> NoReply]
      ELSE LET r == newMessage(s, user, message.rating, message.commandInfo)
           IN  [ran |-> TRUE, thrown |-> r.thrown, store |-> r.store,
                reply |-> r.reply]

InitServer ==
  /\ InitLeaderboard
  /\ NoSibyl
  /\ NoScore
  /\ NoAsync
  /\ NoRun
  /\ NoMonitor
  /\ team = NewServer

ServerConstruct ==
  /\ team.phase = "new"
  /\ team' = TeamServerConstructor(team)
  /\ UNCHANGED <<lbVars, sibylVars, scoreVars, asyncVars, loopVars,
                 monitorVars>>

\* getInitialUserData resolves with the map of compiled user data
UserDataResolves ==
  \E userSeed \in [Users -> UserSeeds], userOrder \in Orders(Users) :
    /\ team.phase = "creating"
    /\ "userData" \in team.pending
    /\ team' = [team EXCEPT
         !.pending = @ \ {"userData"},
         !.userData = [u \in Users |-> compileUserData(userSeed[u])],
         !.userOrder = userOrder]
    /\ UNCHANGED <<lbVars, sibylVars, scoreVars, asyncVars, loopVars,
                   monitorVars>>

\* getInitialChannelData resolves with the map of compiled channel data
ChannelDataResolves ==
  \E channelSeed \in [Channels -> ChannelSeeds],
     channelOrder \in Orders(Channels) :
    /\ team.phase = "creating"
    /\ "channelData" \in team.pending
    /\ team' = [team EXCEPT
         !.pending = @ \ {"channelData"},
         !.channelData = [c \in Channels |->
                            compileChannelData(channelSeed[c])],
         !.channelOrder = channelOrder]
    /\ UNCHANGED <<lbVars, sibylVars, scoreVars, asyncVars, loopVars,
                   monitorVars>>

\* Promise.all resolves: createSibyl constructs the Sibyl over the two maps,
\* which are its store from then on, and the then of the TeamServer sets
\* this.sibyl and calls rtm.start
SibylCreated ==
  /\ team.phase = "creating"
  /\ team.pending = {}
  /\ store' = constructor(team.userData, team.userOrder,
                          team.channelData, team.channelOrder)
  /\ fed' = [u \in Users |-> RatingsOf(team.userData[u].messageInfo)]
  /\ team' = [team EXCEPT !.phase = "serving", !.sibyl = TRUE,
                          !.rtm = "started",
                          !.userData = <<>>, !.userOrder = <<>>,
                          !.channelData = <<>>, !.channelOrder = <<>>]
  /\ UNCHANGED <<event, thrown, events, reply>>
  /\ UNCHANGED <<lbVars, scoreVars, asyncVars, loopVars, monitorVars>>

\* a fetch is rejected: Promise.all rejects and the catch of the TeamServer
\* logs the error and calls process.exit(1)
CreateFails ==
  /\ team.phase = "creating"
  /\ team.pending # {}
  /\ team' = [team EXCEPT !.phase = "exited", !.code = 1]
  /\ UNCHANGED <<lbVars, sibylVars, scoreVars, asyncVars, loopVars,
                 monitorVars>>

\* what a MESSAGE event leaves behind once handleMessage has ended with r:
\* the response sent, if any, and the state of the Sibyl when it ran
Handled(subtype, user, message, r) ==
  /\ team' = [team EXCEPT
       !.handled = @ + 1,
       !.thrown = r.thrown,
       !.sent = IF r.thrown \/ r.reply = NoReply THEN <<>> ELSE <<r.reply>>,
       !.message = [subtype |-> subtype, user |-> user,
                    channel |-> 0, rating |-> message.rating,
                    commandInfo |-> message.commandInfo]]
  /\ store' = r.store
  /\ IF r.ran
       THEN /\ thrown' = r.thrown
            /\ reply' = r.reply
            /\ fed' = [fed EXCEPT ![user] = <<message.rating>> \o @]
            /\ event' = [id |-> user, rating |-> message.rating,
                         commandInfo |-> message.commandInfo]
            /\ events' = events + 1
       ELSE UNCHANGED <<thrown, reply, fed, event, events>>

\* the RTM client delivers a MESSAGE event to the bound handler.  As in
\* NewMessage, a run ends with the first command Sibyl has answered; it also
\* ends with the first bot message, which leaves the Sibyl as it is, so that
\* what can follow it is reached without it.
ServerMessage ==
  \E subtype \in {"", "bot_message"}, user \in Users, message \in Messages :
    /\ team.rtm = "started" /\ team.bound
    /\ team.phase # "exited"
    /\ team.handled < MaxEvents
    /\ event.commandInfo = NoCommand
    /\ team.message.subtype # "bot_message"
    /\ Handled(subtype, user, message,
               handleMessage(team, store, subtype, user, message))
    /\ UNCHANGED <<lbVars, scoreVars, asyncVars, loopVars, monitorVars>>

NextServer ==
  \/ ServerConstruct
  \/ UserDataResolves
  \/ ChannelDataResolves
  \/ SibylCreated
  \/ CreateFails
  \/ ServerMessage

SpecServer == InitServer /\ [][NextServer]_vars

(***************************************************************************)
(* The asynchronous Sibyl (Sibyl.js with constructor(token)) behind its    *)
(* TeamServer: windows of messages per user, filled by updateUser and by   *)
(* the history fetch of a score request.  A message is its timestamp;      *)
(* messages posted before the server started have timestamps <= 0.         *)
(***************************************************************************)
\* the first n elements of a sequence
Take(seq, n) == SubSeq(seq, 1, Min(n, Len(seq)))

\* updateUser(id, message, channel, timestamp)
updateWindow(map, id, userData) ==
  IF id \in DOMAIN map
    THEN LET grown == <<userData>> \o map[id]
         IN  [map EXCEPT ![id] = IF Len(grown) > NUM_USER_MESSAGES
                                   THEN SubSeq(grown, 1, Len(grown) - 1)
                                   ELSE grown]
    ELSE MapSet(map, id, <<userData>>)

\* insufficientMessages that asks for a fetch whatever the window holds
insufficientMessagesAlways(map, id) == TRUE

\* insufficientMessages(id)
insufficientMessages(map, id) ==
  id \notin DOMAIN map \/ Len(map[id]) < NUM_USER_MESSAGES

\* what a promise of the chain has settled to: resolved with null, resolved
\* with the score of a window, or rejected
Settled(kind, window) == [kind |-> kind, window |-> window]

\* getUserPsychoPassHelper(id): the score of the window stored for id, kept
\* as the window it is computed from
getUserPsychoPassHelper(map, id) == Settled("score", map[id])

\* psychoPassUser without its catch
psychoPassUserSettledNoCatch(inner) ==
  CASE inner.kind = "null" -> Settled("unknown", <<>>)
    [] inner.kind = "score" -> inner
    [] OTHER -> Settled("rejected", <<>>)

\* the then and the catch of psychoPassUser over what getUserPsychoPass
\* settled to: the 'does not exist' text, the score text, or the
\* communication-error text
psychoPassUserSettled(inner) ==
  CASE inner.kind = "null" -> Settled("unknown", <<>>)
    [] inner.kind = "score" -> inner
    [] OTHER -> Settled("error", <<>>)

\* a score request: the id asked for, the call it waits for ("info" for
\* users.info, "fetch" for search.messages, "done" when psychoPassUser has
\* settled), how isValidUserId came to its answer, how the history fetch
\* went, what Slack answered the search with once it has served it, and the
\* outcome
Request(id, phase, outcome) ==
  [id |-> id, phase |-> phase, info |-> "pending", fetch |-> "none",
   served |-> FALSE, snapshot |-> <<>>, reply |-> outcome]

NoOutcome == Settled("pending", <<>>)

\* the then of getUserPsychoPass (lines 157-171) for a valid id: fetch when
\* the window is missing or short, else answer from the window
afterValid(map, id) ==
  IF insufficientMessages(map, id)
    THEN [Request(id, "fetch", NoOutcome) EXCEPT !.fetch = "pending"]
    ELSE Request(id, "done",
                 psychoPassUserSettled(getUserPsychoPassHelper(map, id)))

\* the then and the catch of isValidUserId over the answer of users.info,
\* followed by the then of getUserPsychoPass
afterInfo(map, id, outcome) ==
  CASE outcome = "ok" -> [afterValid(map, id) EXCEPT !.info = "ok"]
    [] outcome = "invalid" ->
         [Request(id, "done", psychoPassUserSettled(Settled("null", <<>>)))
            EXCEPT !.info = "invalid"]
    [] OTHER ->
         [Request(id, "done", psychoPassUserSettled(Settled("rejected", <<>>)))
            EXCEPT !.info = "error"]

\* psychoPassUser(id) up to its first pending call
psychoPassUserAsync(cached, map, id) ==
  IF id \in cached
    THEN [afterValid(map, id) EXCEPT !.info = "cached"]
    ELSE Request(id, "info", NoOutcome)

\* fetchMessages without its catch
fetchMessagesNoCatch(map, id, ok, matches) ==
  [rejected |-> ~ok, users |-> IF ok THEN MapSet(map, id, matches) ELSE map]

\* fetchMessages(id) once search.messages has answered: the matches become
\* the window of id, an error is swallowed
fetchMessages(map, id, ok, matches) ==
  [rejected |-> FALSE, users |-> IF ok THEN MapSet(map, id, matches) ELSE map]

\* the then of fetchMessages in getUserPsychoPass (lines 162-168): a missing
\* window is created empty, then the score is computed
afterFetch(fetched, id) ==
  IF fetched.rejected
    THEN [users |-> fetched.users, inner |-> Settled("rejected", <<>>)]
    ELSE LET map == IF id \in DOMAIN fetched.users
                      THEN fetched.users
                      ELSE MapSet(fetched.users, id, <<>>)
         IN  [users |-> map, inner |-> getUserPsychoPassHelper(map, id)]

\* the history Slack holds for a user when the server starts, newest first:
\* none, or enough to fill a window
Old(n) == [i \in 1..n |-> 1 - i]

InitAsync ==
  /\ InitLeaderboard
  /\ NoSibyl
  /\ NoScore
  /\ NoTeam
  /\ userInfo = {}
  /\ users = <<>>
  /\ \E n \in {0, NUM_USER_MESSAGES} : slack = [u \in Users |-> Old(n)]
  /\ requests = <<>>
  /\ posted = 0
  /\ NoRun
  /\ NoMonitor

\* a MESSAGE event: handleMessage hands it to newMessage, which records it
\* with updateUser and, for a score command, starts a request
AsyncMessage ==
  \E id \in Users, target \in {Undefined, UnknownId} \cup Users :
    /\ posted < MaxEvents
    /\ target # Undefined => Len(requests) < MaxRequests
    /\ posted' = posted + 1
    /\ slack' = [slack EXCEPT
                   ![id] = Take(<<posted + 1>> \o @, NUM_USER_MESSAGES)]
    /\ users' = updateWindow(users, id, posted + 1)
    /\ requests' = IF target = Undefined
                     THEN requests
                     ELSE Append(requests,
                                 psychoPassUserAsync(userInfo, users', target))
    /\ UNCHANGED userInfo
    /\ UNCHANGED <<lbVars, sibylVars, scoreVars, bootVars, loopVars,
                   monitorVars>>

\* users.info answers a request: the user's info, one of the errors that
\* isValidUserId takes for 'no such user', or any other error
InfoResponse ==
  \E i \in DOMAIN requests :
    \E outcome \in (IF requests[i].id \in Users THEN {"ok"} ELSE {"invalid"})
                     \cup {"error"} :
      /\ requests[i].phase = "info"
      /\ userInfo' = IF outcome = "ok"
                       THEN userInfo \cup {requests[i].id}
                       ELSE userInfo
      /\ requests' = [requests EXCEPT
                        ![i] = afterInfo(users, requests[i].id, outcome)]
      /\ UNCHANGED <<users, slack, posted>>
      /\ UNCHANGED <<lbVars, sibylVars, scoreVars, bootVars, loopVars,
                     monitorVars>>

\* Slack runs the search of a request: the ten newest messages of the user
SearchServed ==
  \E i \in DOMAIN requests :
    /\ requests[i].phase = "fetch"
    /\ ~requests[i].served
    /\ requests' = [requests EXCEPT
         ![i].served = TRUE,
         ![i].snapshot = Take(slack[requests[i].id], 10)]
    /\ UNCHANGED <<userInfo, users, slack, posted>>
    /\ UNCHANGED <<lbVars, sibylVars, scoreVars, bootVars, loopVars,
                   monitorVars>>

\* search.messages answers a request: fetchMessages stores the matches as the
\* user's window, or swallows the error; getUserPsychoPass then creates a
\* missing window and computes the score
FetchResponse ==
  \E i \in DOMAIN requests, ok \in BOOLEAN :
    LET id == requests[i].id
        done == afterFetch(fetchMessages(users, id, ok, requests[i].snapshot),
                           id)
    IN  /\ requests[i].phase = "fetch"
        /\ ok => requests[i].served
        /\ users' = done.users
        /\ requests' = [requests EXCEPT
             ![i].phase = "done",
             ![i].snapshot = <<>>,
             ![i].fetch = IF ok THEN "ok" ELSE "failed",
             ![i].reply = psychoPassUserSettled(done.inner)]
        /\ UNCHANGED <<userInfo, slack, posted>>
        /\ UNCHANGED <<lbVars, sibylVars, scoreVars, bootVars, loopVars,
                       monitorVars>>

NextAsync ==
  \/ AsyncMessage
  \/ InfoResponse
  \/ SearchServed
  \/ FetchResponse

SpecAsync == InitAsync /\ [][NextAsync]_vars

(***************************************************************************)
(* The loops of the Leaderboard, one iteration per step: the while of      *)
(* findIndex and the two whiles of remove, run for findIndex, insert,      *)
(* remove and update on a leaderboard as update leaves it.                 *)
(***************************************************************************)
\* the arrays update can have built: one entry per id, sorted by value
Leaderboards ==
  {L \in UNION {[1..n -> [id : Ids, value : Values]] : n \in 0..MaxIds} :
     /\ \A i, j \in 1..Len(L) : L[i].id = L[j].id => i = j
     /\ \A i \in 1..(Len(L) - 1) : L[i].value <= L[i + 1].value}

\* an iteration of findIndex that leaves low where it is
searchStepNoAdvance(L, target, low, high) ==
  LET m == RoundHalf(low + high)
      value == At(L, m).value
  IN  IF value < target
        THEN [found |-> FALSE, low |-> Max(low, m - 1), mid |-> m,
              high |-> high]
      ELSE IF target < value
        THEN [found |-> FALSE, low |-> low, mid |-> m, high |-> m - 1]
      ELSE [found |-> TRUE, low |-> low, mid |-> m, high |-> high]

\* one iteration of the while of findIndex (lines 134-143)
searchStep(L, target, low, high) ==
  LET m == RoundHalf(low + high)
      value == At(L, m).value
  IN  IF value < target
        THEN [found |-> FALSE, low |-> m + 1, mid |-> m, high |-> high]
      ELSE IF target < value
        THEN [found |-> FALSE, low |-> low, mid |-> m, high |-> m - 1]
      ELSE [found |-> TRUE, low |-> low, mid |-> m, high |-> high]

\* the first statements of findIndex (lines 129-131), called for a stage
startSearch(r, stage, target) ==
  [r EXCEPT !.pc = "search", !.stage = stage, !.value = target,
            !.low = 0, !.mid = 0, !.high = Len(r.L) - 1]

\* findIndex has returned index to its caller: findIndex itself ends, insert
\* adjusts and splices (lines 80-85), remove starts its forward loop (lines
\* 98-99)
afterSearch(r, index) ==
  CASE r.stage = "findIndex" -> [r EXCEPT !.pc = "done", !.out = index]
    [] r.stage = "insert" ->
         [r EXCEPT !.pc = "done",
                   !.L = SpliceIn(r.L,
                                  IF Len(r.L) > 0
                                       /\ r.entry.value > At(r.L, index).value
                                    THEN index + 1
                                    ELSE index,
                                  r.entry)]
    [] OTHER -> [r EXCEPT !.pc = "forward", !.origin = index, !.index = index]

\* remove has found id at index: the splice of line 114; remove itself ends,
\* update sets the new value and calls insert (lines 32-35)
afterScan(r, index) ==
  LET spliced == [r EXCEPT !.L = SpliceOut(r.L, index),
                           !.entry = At(r.L, index)]
  IN  IF r.op = "update"
        THEN startSearch([spliced EXCEPT
                            !.entry = setValue(At(r.L, index), r.newValue)],
                         "insert", r.newValue)
        ELSE [spliced EXCEPT !.pc = "done"]

InitLoop ==
  /\ InitLeaderboard
  /\ NoSibyl
  /\ NoScore
  /\ NoTeam
  /\ NoAsync
  /\ NoMonitor
  /\ \E L \in Leaderboards : run = Idle(L)

\* findIndex(target) is called
CallFindIndex ==
  \E target \in Values :
    /\ run.pc = "idle"
    /\ run' = startSearch([run EXCEPT !.op = "findIndex"], "findIndex", target)
    /\ UNCHANGED <<lbVars, sibylVars, scoreVars, bootVars, asyncVars,
               monitorVars>>

\* insert(entry) is called for an id that has no entry
CallInsert ==
  \E id \in Ids, value \in Values :
    /\ run.pc = "idle"
    /\ \A i \in 1..Len(run.L) : run.L[i].id # id
    /\ run' = startSearch([run EXCEPT !.op = "insert", !.id = id,
                                      !.entry = Entry(id, value)],
                          "insert", value)
    /\ UNCHANGED <<lbVars, sibylVars, scoreVars, bootVars, asyncVars,
               monitorVars>>

\* remove(id, value) is called, with any id and any value
CallRemove ==
  \E id \in Ids, value \in Values :
    /\ run.pc = "idle"
    /\ run' = startSearch([run EXCEPT !.op = "remove", !.id = id],
                          "remove", value)
    /\ UNCHANGED <<lbVars, sibylVars, scoreVars, bootVars, asyncVars,
               monitorVars>>

\* update(id, newValue, oldValue) is called, with any id and any values:
\* it returns at once, or inserts a new entry, or removes and reinserts
CallUpdate ==
  \E id \in Ids, newValue \in Values, oldValue \in Values \cup {Undefined} :
    /\ run.pc = "idle"
    /\ oldValue = Undefined => \A i \in 1..Len(run.L) : run.L[i].id # id
    /\ LET called == [run EXCEPT !.op = "update", !.id = id,
                                 !.newValue = newValue]
       IN  run' = IF newValue = oldValue
                    THEN [called EXCEPT !.pc = "done"]
                  ELSE IF oldValue = Undefined
                    THEN startSearch([called EXCEPT
                                        !.entry = Entry(id, newValue)],
                                     "insert", newValue)
                  ELSE startSearch(called, "remove", oldValue)
    /\ UNCHANGED <<lbVars, sibylVars, scoreVars, bootVars, asyncVars,
               monitorVars>>

\* the while of findIndex: one iteration, or its exit with return mid
Search ==
  /\ run.pc = "search"
  /\ run' = IF run.low <= run.high
              THEN LET s == searchStep(run.L, run.value, run.low, run.high)
                       stepped == [run EXCEPT !.low = s.low, !.mid = s.mid,
                                              !.high = s.high,
                                              !.steps = @ + 1]
                   IN  IF s.found THEN afterSearch(stepped, s.mid)
                                  ELSE stepped
              ELSE afterSearch(run, run.mid)
  /\ UNCHANGED <<lbVars, sibylVars, scoreVars, bootVars, asyncVars,
               monitorVars>>

\* the while of lines 101-103: one iteration, or its exit into line 105,
\* which throws on an undefined entry
Forward ==
  /\ run.pc = "forward"
  /\ run' = IF /\ Defined(run.L, run.index)
               /\ At(run.L, run.index).id # run.id
               /\ At(run.L, run.index).value = run.value
              THEN [run EXCEPT !.index = @ + 1, !.steps = @ + 1]
            ELSE IF ~Defined(run.L, run.index)
              THEN [run EXCEPT !.pc = "fault"]
            ELSE IF At(run.L, run.index).id # run.id
              THEN [run EXCEPT !.pc = "backward", !.index = run.origin - 1]
            ELSE afterScan(run, run.index)
  /\ UNCHANGED <<lbVars, sibylVars, scoreVars, bootVars, asyncVars,
               monitorVars>>

\* the while of lines 109-111: its test throws on an undefined entry
Backward ==
  /\ run.pc = "backward"
  /\ run' = IF ~Defined(run.L, run.index)
              THEN [run EXCEPT !.pc = "fault"]
            ELSE IF At(run.L, run.index).id # run.id
              THEN [run EXCEPT !.index = @ - 1, !.steps = @ + 1]
            ELSE afterScan(run, run.index)
  /\ UNCHANGED <<lbVars, sibylVars, scoreVars, bootVars, asyncVars,
               monitorVars>>

NextLoop ==
  \/ CallFindIndex
  \/ CallInsert
  \/ CallRemove
  \/ CallUpdate
  \/ Search
  \/ Forward
  \/ Backward

SpecLoop == InitLoop /\ [][NextLoop]_vars

(***************************************************************************)
(* The DataStore whose channels carry a monitor timeout (DataStore.js with *)
(* monitorTimeout).  this.channels.get(id) of an id never added is         *)
(* undefined, and reading or writing its monitorTimeout throws a           *)
(* TypeError.  given and ticks record, outside the store, the value each   *)
(* channel was last given and the ticks it has had since.                  *)
(***************************************************************************)
MaxMonitored == 2
MaxTimeout == 2

Monitored == 1..MaxMonitored

\* values passed to setChannelMonitorTimeout: one negative, and 0 up to the
\* longest countdown
Timeouts == (-1)..MaxTimeout

\* addChannel of the DataStore with monitor timeouts
addMonitoredChannel(ds, id, name, psychoPass, messageInfo) ==
  LET channelInfo == [name |-> name, psychoPass |-> psychoPass,
                      messageInfo |-> messageInfo, monitorTimeout |-> 0]
  IN  [ds EXCEPT !.channels = MapSet(@, id, channelInfo)]

getChannelMonitorTimeout(ds, id) == ds.channels[id].monitorTimeout

setChannelMonitorTimeout(ds, id, monitorTimeout) ==
  [ds EXCEPT !.channels[id].monitorTimeout = monitorTimeout]

\* tickChannelMonitorTimeout without the test of line 137
tickChannelMonitorTimeoutAlways(ds, id) ==
  [ds EXCEPT !.channels[id].monitorTimeout = @ - 1]

tickChannelMonitorTimeout(ds, id) ==
  LET channel == ds.channels[id]
  IN  IF channel.monitorTimeout > 0
        THEN [ds EXCEPT !.channels[id].monitorTimeout = @ - 1]
        ELSE ds

InitMonitor ==
  /\ InitLeaderboard
  /\ NoSibyl
  /\ NoScore
  /\ NoTeam
  /\ NoAsync
  /\ NoRun
  /\ monitor = NewMonitor

\* addChannel(id, name, psychoPass, messageInfo); adding an id again
\* replaces its channelInfo
AddChannel ==
  \E id \in Monitored :
    /\ monitor' =
         [store |-> addMonitoredChannel(monitor.store, id, id, 70, <<>>),
          thrown |-> FALSE,
          given |-> [c \in DOMAIN monitor.given \ {id} |-> monitor.given[c]],
          ticks |-> MapSet(monitor.ticks, id, 0)]
    /\ UNCHANGED <<lbVars, sibylVars, scoreVars, bootVars, asyncVars,
                   loopVars>>

\* setChannelMonitorTimeout(id, monitorTimeout)
SetChannelMonitorTimeout ==
  \E id \in Monitored, monitorTimeout \in Timeouts :
    /\ monitor' =
         IF id \in DOMAIN monitor.store.channels
           THEN [store |-> setChannelMonitorTimeout(monitor.store, id,
                                                    monitorTimeout),
                 thrown |-> FALSE,
                 given |-> MapSet(monitor.given, id, monitorTimeout),
                 ticks |-> MapSet(monitor.ticks, id, 0)]
           ELSE [monitor EXCEPT !.thrown = TRUE]
    /\ UNCHANGED <<lbVars, sibylVars, scoreVars, bootVars, asyncVars,
                   loopVars>>

\* tickChannelMonitorTimeout(id); the model stops counting a channel's ticks
\* one past the longest countdown
TickChannelMonitorTimeout ==
  \E id \in Monitored :
    /\ id \in DOMAIN monitor.ticks => monitor.ticks[id] <= MaxTimeout
    /\ monitor' =
         IF id \in DOMAIN monitor.store.channels
           THEN [monitor EXCEPT
                   !.store = tickChannelMonitorTimeout(monitor.store, id),
                   !.thrown = FALSE,
                   !.ticks[id] = @ + 1]
           ELSE [monitor EXCEPT !.thrown = TRUE]
    /\ UNCHANGED <<lbVars, sibylVars, scoreVars, bootVars, asyncVars,
                   loopVars>>

NextMonitor ==
  \/ AddChannel
  \/ SetChannelMonitorTimeout
  \/ TickChannelMonitorTimeout

SpecMonitor == InitMonitor /\ [][NextMonitor]_vars

(***************************************************************************)
(* Properties of the Leaderboard.                                          *)
(***************************************************************************)
Sorted(L) == \A i \in 1..(Len(L) - 1) : L[i].value <= L[i + 1].value

Positions(L, id) == {i \in 1..Len(L) : L[i].id = id}

IdsOf(L) == {L[i].id : i \in 1..Len(L)}

\* the entries of L other than id's, in their order
Others(L, id) == SelectSeq(L, LAMBDA e : e.id # id)

Reposition == call.op = "update" /\ call.valid /\ call.oldValue # Undefined

\* C1: after every update call the entries of the leaderboard are in
\* non-decreasing value order.
C1_Sorted == Sorted(leaderboard)

\* a reposition has run on a leaderboard of three entries, two of them tied
C1_Witness ==
  /\ Reposition /\ ~fault /\ call.newValue # call.oldValue
  /\ Len(leaderboard) = 3
  /\ \E i \in 1..2 : leaderboard[i].value = leaderboard[i + 1].value
  /\ leaderboard[1].value < leaderboard[3].value

\* C2: every update(id, newValue, oldValue) with newValue # oldValue that
\* passes the value id's entry holds returns without faulting, and afterwards
\* id's entry holds newValue.
C2_RepositionSucceeds ==
  (Reposition /\ call.newValue # call.oldValue) =>
    /\ ~fault
    /\ \A i \in Positions(leaderboard, call.id) :
         leaderboard[i].value = call.newValue

\* C3: the leaderboard holds exactly one entry for every inserted id and
\* none for any other, so its length is the number of ids inserted.
C3_SingleEntry ==
  /\ \A id \in Ids :
       Cardinality(Positions(leaderboard, id)) =
         IF id \in inserted THEN 1 ELSE 0
  /\ Len(leaderboard) = Cardinality(inserted)

\* a reposition has completed with every id inserted
C3_Witness ==
  /\ Reposition /\ ~fault /\ call.newValue # call.oldValue
  /\ inserted = Ids

\* the k entries of r cover the largest (highest) or smallest values of L
Extreme(L, r, highest) ==
  /\ \A i \in 1..Len(r) : \E j \in 1..Len(L) : L[j] = r[i]
  /\ \A i, j \in 1..Len(r) : r[i].id = r[j].id => i = j
  /\ \A j \in 1..Len(L) :
       (\A i \in 1..Len(r) : r[i].id # L[j].id) =>
         \A i \in 1..Len(r) :
           IF highest THEN L[j].value <= r[i].value
                      ELSE r[i].value <= L[j].value

\* C4: getHighest(k) returns min(k, n) entries, the ones with the largest
\* values, ordered from highest value to lowest.
C4_GetHighest ==
  call.op = "getHighest" =>
    /\ Len(result) = Min(call.num, Len(leaderboard))
    /\ Extreme(leaderboard, result, TRUE)
    /\ \A i \in 1..(Len(result) - 1) : result[i].value >= result[i + 1].value

\* C5: getLowest(k) returns min(k, n) entries, the ones with the smallest
\* values, ordered from lowest value to highest.
C5_GetLowest ==
  call.op = "getLowest" =>
    /\ Len(result) = Min(call.num, Len(leaderboard))
    /\ Extreme(leaderboard, result, FALSE)
    /\ \A i \in 1..(Len(result) - 1) : result[i].value <= result[i + 1].value

\* C9: update(id, newValue, oldValue) with newValue equal to oldValue leaves
\* the leaderboard sequence unchanged.
C9_NoOp ==
  [][(call'.op = "update" /\ call'.newValue = call'.oldValue)
       => leaderboard' = leaderboard]_vars

\* an update with equal values has run for an id tied with another entry
C9_Witness ==
  /\ call.op = "update" /\ call.valid /\ call.newValue = call.oldValue
  /\ ~fault
  /\ \E i, j \in 1..Len(leaderboard) :
       /\ i # j
       /\ leaderboard[i].id = call.id
       /\ leaderboard[j].value = leaderboard[i].value

C14_TieStability ==
  [][call'.op = "update" =>
       Others(leaderboard', call'.id) = Others(leaderboard, call'.id)]_vars

\* a reposition has moved an entry into the tie of two other entries
C14_Witness ==
  /\ Reposition /\ ~fault
  /\ call.newValue # call.oldValue
  /\ Len(leaderboard) = 3
  /\ \A i \in 1..3 : leaderboard[i].value = call.newValue
  /\ leaderboard[1].id > leaderboard[3].id

\* C16: on a sorted leaderboard of n entries findIndex(target) returns 0 when
\* n = 0 and otherwise an index i with 0 <= i < n; when some entry holds
\* target, entry i holds target; when none does, the position that keeps the
\* order is i when entry i's value is greater than target and i + 1 when it
\* is smaller.
C16_FindIndexResult ==
  call.op = "findIndex" =>
    LET n == Len(leaderboard)
        target == call.target
        held == \E k \in 1..n : leaderboard[k].value = target
        place == IF At(leaderboard, returned).value > target
                   THEN returned
                   ELSE returned + 1
    IN  IF n = 0
          THEN returned = 0
          ELSE /\ 0 <= returned /\ returned < n
               /\ held => At(leaderboard, returned).value = target
               /\ ~held =>
                    /\ \A k \in 0..(place - 1) :
                         At(leaderboard, k).value < target
                    /\ \A k \in place..(n - 1) :
                         At(leaderboard, k).value > target

\* findIndex has stopped on a smaller entry that a greater entry follows
C16_Witness ==
  /\ call.op = "findIndex"
  /\ \A k \in 1..Len(leaderboard) : leaderboard[k].value # call.target
  /\ returned + 1 < Len(leaderboard)
  /\ At(leaderboard, returned).value < call.target

\* C17: remove(id, value), whatever value is passed, either faults and leaves
\* the leaderboard as it was, or removes exactly one entry, whose id is id,
\* and returns it; the entries of other ids stay, in their order, and the
\* leaderboard stays sorted.
C17_RemoveTouchesId ==
  [][call'.op = "remove" =>
       \/ fault' /\ leaderboard' = leaderboard
       \/ /\ ~fault'
          /\ Len(leaderboard') = Len(leaderboard) - 1
          /\ leaderboard' = Others(leaderboard, call'.id)
          /\ Len(result') = 1 /\ result'[1].id = call'.id
          /\ \E k \in 1..Len(leaderboard) : leaderboard[k] = result'[1]
          /\ Sorted(leaderboard')]_vars

\* remove has taken out id's entry although it was passed another value
C17_Witness ==
  /\ call.op = "remove" /\ ~fault
  /\ result[1].value # call.value
  /\ Len(leaderboard) >= 2

(***************************************************************************)
(* Properties of the rating windows and of the score.                      *)
(***************************************************************************)
WindowOf(u) == RatingsOf(store.users[u].messageInfo)

ClassWeight(num, i) ==
  IF num = 10
    THEN (IF i < 3 THEN 10 ELSE IF i < 5 THEN 8 ELSE IF i < 7 THEN 6 ELSE 4)
    ELSE 5 - (i \div 5)

\* the sum of ClassWeight(num, i) * r[i] over the first n positions of r
RECURSIVE WeightedSum(_, _, _)
WeightedSum(num, r, n) ==
  IF n = 0 THEN 0
  ELSE WeightedSum(num, r, n - 1) + ClassWeight(num, n - 1) * r[n]

\* C7: computePsychoPass returns max(0, floor(70 + sum of weight[i] *
\* ratings[i] over the positions present)); the empty window scores 70 and
\* ten ratings of 1 in a capacity-10 window score 105.
C7_ScoreFormula ==
  output # Undefined =>
    LET r == input.messageRatings
        twice == 2 * 70 + WeightedSum(input.num, r, Len(r))
    IN  /\ IF twice < 0
             THEN output = 0
             ELSE 2 * output <= twice /\ twice < 2 * output + 2
        /\ r = <<>> => output = 70
        /\ (input.num = 10 /\ r = Const(10, 1)) => output = 105

\* a short channel window with a fractional weighted sum has been scored
C7_Witness ==
  /\ output # Undefined
  /\ input.num = 20
  /\ Len(input.messageRatings) \in 1..19
  /\ (WeightedSum(20, input.messageRatings, Len(input.messageRatings))) % 2 = 1
  /\ output > 70

\* C8: after every newMessage step, completed or thrown, each user's stored
\* psychoPass is the score of the user's stored window.
C8_ScoreOfWindow ==
  \A u \in DOMAIN store.users :
    store.users[u].psychoPass = computeUserPsychoPass(WindowOf(u))

(***************************************************************************)
(* Properties of the registry: queries, seeding and agreement.             *)
(***************************************************************************)
\* the message handled last asked for the score of an id without store entry
UnknownQuery(e, s) ==
  \/ e.commandInfo.command = "user" /\ e.commandInfo.id \notin DOMAIN s.users
  \/ /\ e.commandInfo.command = "channel"
     /\ e.commandInfo.id \notin DOMAIN s.channels

\* C11: a score query for an id that the store has no entry for is answered
\* with a reply rather than a throw, and the query changes no window, score
\* or leaderboard: the store is as updateUser left it for the message.
C11_UnknownQuery ==
  [][(/\ UnknownQuery(event', store)
      /\ ~updateUser(store, event'.id, event'.rating).thrown)
       => /\ ~thrown'
          /\ store' = updateUser(store, event'.id, event'.rating).store]_vars

\* L holds exactly one entry for every key of data, valued the psychoPass that
\* data stores for it, and is sorted
Agrees(L, data) ==
  /\ Len(L) = Cardinality(DOMAIN data)
  /\ \A id \in DOMAIN data :
       \E i \in 1..Len(L) : L[i] = Entry(id, data[id].psychoPass)
  /\ Sorted(L)

\* C12: right after Sibyl is constructed from seeded user and channel data,
\* the user leaderboard holds exactly one entry per user and the channel
\* leaderboard one per channel, each valued the entity's seeded score, and
\* both are sorted.
C12_Seeding ==
  events = 0 =>
    /\ Agrees(store.leaderboards.users, store.users)
    /\ Agrees(store.leaderboards.channels, store.channels)

\* a Sibyl was constructed from users of different seeded scores
C12_Witness ==
  /\ events = 0
  /\ \E u, v \in DOMAIN store.users :
       u < v /\ store.users[u].psychoPass > store.users[v].psychoPass
  /\ Len(store.leaderboards.channels) = MaxChannels

\* C13: for every window of integer ratings of length 0 up to the capacity,
\* computePsychoPass returns an integer that is at least 0, and it does not
\* clamp from above: a weighted sum of 31 or more gives a score above 100.
C13_ScoreLowerBound ==
  [][LET r == input.messageRatings
         twice == 2 * 70 + WeightedSum(input.num, r, Len(r))
     IN  /\ output' \in Nat
         /\ twice >= 2 * 101 => output' > 100]_vars

\* a window whose weighted sum is below -70 has been scored
C13_Witness ==
  /\ output = 0
  /\ 2 * 70 + WeightedSum(input.num, input.messageRatings,
                          Len(input.messageRatings)) < -1
  /\ Len(input.messageRatings) > 0

\* C18: after seeding and after every newMessage, completed or thrown, the
\* user leaderboard holds exactly one entry for every user of the store,
\* valued the psychoPass the store holds for the user, and the channel
\* leaderboard likewise for the channels.
C18_Agreement ==
  /\ Agrees(store.leaderboards.users, store.users)
  /\ Agrees(store.leaderboards.channels, store.channels)

\* a message was handled to its end after an earlier one had thrown and left
\* a user with the score of the window before it
C18_Witness ==
  /\ events >= 2 /\ ~thrown
  /\ store.users[event.id].psychoPass # 70
  /\ \E u \in DOMAIN store.users :
       store.users[u].psychoPass # computeUserPsychoPass(WindowOf(u))

Held(window) == {window[i] : i \in 1..Len(window)}

\* C20: in the asynchronous Sibyl every message that updateUser recorded for
\* a user and that fewer than ten newer ones of the user have followed is in
\* the user's window, whatever fetches were pending when it was recorded and
\* have resolved since.
C20_NoLostMessage ==
  \A u \in DOMAIN users :
    \A i \in 1..Len(slack[u]) :
      slack[u][i] > 0 => slack[u][i] \in Held(users[u])

\* the score of id's window after a message of the given rating has entered it
Fresh(s, id, rating) ==
  computeUserPsychoPass(
    Take(<<rating>> \o RatingsOf(s.users[id].messageInfo), NUM_USER_MESSAGES))

\* C21: when newMessage answers a command, the sender's window already
\* starts with the rating of that message, the sender's leaderboard entry
\* and stored score are the score of that window, and the reply is built
\* from them: a score reply about the sender and a leaderboard reply both
\* show the fresh score.
C21_FreshReply ==
  [][(events' = events + 1 /\ event'.commandInfo # NoCommand /\ ~thrown') =>
       LET id == event'.id
           fresh == Fresh(store, id, event'.rating)
           command == event'.commandInfo
       IN  /\ store'.users[id].messageInfo[1].rating = event'.rating
           /\ store'.users[id].psychoPass = fresh
           /\ \E i \in 1..Len(store'.leaderboards.users) :
                store'.leaderboards.users[i] = Entry(id, fresh)
           /\ (command.command = "user" /\ command.id = id) =>
                reply'.psychoPass = fresh
           /\ command.command = "users" =>
                \E i \in 1..Len(reply'.lowest) :
                  reply'.lowest[i] = [id |-> id, value |-> fresh]
           /\ reply' = respond(store', command).reply]_vars

\* a user whose score the message changed has asked for their own score
C21_Witness ==
  /\ events > 0 /\ ~thrown
  /\ event.commandInfo = [command |-> "user", id |-> event.id]
  /\ event.rating = 1
  /\ Len(fed[event.id]) = NUM_USER_MESSAGES
  /\ reply.psychoPass = 105

\* C22: the updateUser of a message from id changes nothing but id's window,
\* id's stored score and id's place in the user leaderboard: the data of
\* every other user, the entries of the other users and their order, every
\* channel and the channel leaderboard are as before, whether or not the
\* update throws.
C22_UserFrame ==
  [][events' = events + 1 =>
       LET id == event'.id
       IN  /\ DOMAIN store'.users = DOMAIN store.users
           /\ \A u \in DOMAIN store.users \ {id} :
                store'.users[u] = store.users[u]
           /\ Others(store'.leaderboards.users, id) =
                Others(store.leaderboards.users, id)
           /\ store'.channels = store.channels
           /\ store'.leaderboards.channels = store.leaderboards.channels]_vars

\* a message has moved its sender from behind to before another user who
\* has a seeded window and a seeded channel beside them
C22_Witness ==
  /\ events = 1 /\ ~thrown
  /\ store.leaderboards.users[1].id = event.id
  /\ store.users[event.id].psychoPass = 100
  /\ \E u \in DOMAIN store.users \ {event.id} :
       Len(fed[u]) = NUM_USER_MESSAGES - 1 /\ store.users[u].psychoPass = 103
  /\ \E c \in DOMAIN store.channels : store.channels[c].psychoPass > 70

C24_StartAfterCreate ==
  /\ team.rtm = "started" => team.sibyl
  /\ team.handled > 0 => team.sibyl
  /\ team.sibyl => team.phase = "serving" /\ team.pending = {}
  /\ team.phase = "exited" =>
       team.code = 1 /\ team.rtm = "idle" /\ ~team.sibyl /\ team.handled = 0

\* a message has been handled and answered by the Sibyl that was created
C24_Witness ==
  /\ team.handled > 0 /\ team.sibyl /\ ~team.thrown
  /\ team.message.subtype = ""
  /\ Len(team.sent) = 1
  /\ team.code = Undefined

(***************************************************************************)
(* Properties of the asynchronous score request.                           *)
(***************************************************************************)
\* C25: the promise of psychoPassUser never rejects; once settled it holds
\* the 'does not exist' text exactly when users.info failed with one of the
\* errors of an invalid id, the communication-error text exactly when
\* users.info failed with another error, and the score text otherwise.
C25_NeverRejects ==
  \A i \in DOMAIN requests :
    LET r == requests[i]
    IN  IF r.phase = "done"
          THEN /\ r.reply.kind \in {"unknown", "error", "score"}
               /\ r.reply.kind = "unknown" <=> r.info = "invalid"
               /\ r.reply.kind = "error" <=> r.info = "error"
               /\ r.reply.kind = "score" <=> r.info \in {"ok", "cached"}
          ELSE r.reply = NoOutcome

\* one request was answered with the communication-error text and another,
\* whose history fetch failed, with a score
C25_Witness ==
  /\ Len(requests) = 2
  /\ requests[1].reply.kind = "error"
  /\ requests[2].reply.kind = "score" /\ requests[2].fetch = "failed"
  /\ requests[2].id = requests[1].id

\* C26: when the history fetch of a request for a valid id fails, the
\* window stored for the user is as it was, or empty if there was none, and
\* the request is answered with the score of that window.
C26_FetchFailureAbsorbed ==
  [][\A i \in DOMAIN requests :
       (/\ requests[i].phase = "fetch"
        /\ requests'[i].phase = "done"
        /\ requests'[i].fetch = "failed") =>
         LET id == requests[i].id
         IN  /\ users' = IF id \in DOMAIN users
                            THEN users
                            ELSE MapSet(users, id, <<>>)
             /\ requests'[i].reply = Settled("score", users'[id])]_vars

\* a failed fetch was answered from the two messages recorded meanwhile
C26_Witness ==
  \E i \in DOMAIN requests :
    /\ requests[i].phase = "done" /\ requests[i].fetch = "failed"
    /\ requests[i].reply.kind = "score"
    /\ Len(requests[i].reply.window) = 2
    /\ users[requests[i].id] = requests[i].reply.window

\* C27: a request for a user whose info is in store.userInfo and whose
\* window holds NUM_USER_MESSAGES messages is answered at once from the
\* window, without users.info and without search.messages; and whenever a
\* history fetch is issued, the user's window is missing or shorter.
C27_NoCallOnceCached ==
  [][/\ Len(requests') = Len(requests) + 1 =>
          LET r == requests'[Len(requests')]
          IN  (/\ r.id \in userInfo
               /\ r.id \in DOMAIN users'
               /\ Len(users'[r.id]) >= NUM_USER_MESSAGES) =>
                /\ r.info = "cached" /\ r.fetch = "none"
                /\ r.phase = "done"
                /\ r.reply = Settled("score", users'[r.id])
     /\ \A i \in DOMAIN requests' :
          (/\ requests'[i].fetch = "pending"
           /\ i \in DOMAIN requests => requests[i].fetch = "none") =>
            \/ requests'[i].id \notin DOMAIN users'
            \/ Len(users'[requests'[i].id]) < NUM_USER_MESSAGES]_vars

\* a second request for a user was answered from the window the fetch of the
\* first had filled
C27_Witness ==
  /\ Len(requests) = 2
  /\ requests[1].fetch = "ok"
  /\ requests[2].id = requests[1].id
  /\ requests[2].info = "cached" /\ requests[2].fetch = "none"
  /\ requests[2].phase = "done"
  /\ Len(requests[2].reply.window) = NUM_USER_MESSAGES

(***************************************************************************)
(* Termination of the Leaderboard operations.                              *)
(***************************************************************************)
\* C28: on a leaderboard of n entries every call of findIndex, insert,
\* remove and update has run at most 3 * n + 1 loop iterations in all, and
\* while it has neither returned nor thrown it can take a further step: no
\* loop goes on forever and none gets stuck.
C28_Terminates ==
  /\ run.steps <= 3 * run.size + 1
  /\ run.pc \in {"search", "forward", "backward"} => ENABLED NextLoop
  /\ run.pc \in {"idle", "search", "forward", "backward", "done", "fault"}

\* an update has returned after its remove went through the forward and the
\* backward loop and its insert through the search
C28_Witness ==
  /\ run.op = "update" /\ run.pc = "done" /\ run.stage = "insert"
  /\ run.index < run.origin
  /\ run.steps >= 4

(***************************************************************************)
(* Properties of the weight vectors.                                       *)
(***************************************************************************)
\* C29: the weight vector of the class a score is computed for has as many
\* weights as the class has positions, every weight is positive, and no
\* weight is smaller than the one after it.
C29_WeightsWellFormed ==
  LET weights == getWeights(input.num)
  IN  /\ input.num \in {NUM_USER_MESSAGES, NUM_CHANNEL_MESSAGES}
      /\ Len(weights) = input.num
      /\ \A i \in 1..Len(weights) : weights[i] > 0
      /\ \A i \in 1..(Len(weights) - 1) : weights[i] >= weights[i + 1]

\* a full channel window has been scored, with every weight used
C29_Witness ==
  /\ output # Undefined
  /\ input.num = NUM_CHANNEL_MESSAGES
  /\ Len(input.messageRatings) = NUM_CHANNEL_MESSAGES
  /\ output # 70

\* the lengths of the maximal runs of equal weights, in order
RECURSIVE TierSizes(_)
TierSizes(w) ==
  IF w = <<>> THEN <<>>
  ELSE LET rest == TierSizes(Tail(w))
       IN  IF Len(w) > 1 /\ w[1] = w[2]
             THEN <<rest[1] + 1>> \o Tail(rest)
             ELSE <<1>> \o rest

\* the weight of each such run, in order
RECURSIVE TierWeights(_)
TierWeights(w) ==
  IF w = <<>> THEN <<>>
  ELSE IF Len(w) > 1 /\ w[1] = w[2] THEN TierWeights(Tail(w))
  ELSE <<w[1]>> \o TierWeights(Tail(w))

\* C30 as stated: the capacity-10 weight vector has five tiers of two
\* positions each, the capacity-20 vector four tiers of five positions each.
C30_Plateaus ==
  /\ input.num = 10 => TierSizes(getWeights(input.num)) = <<2, 2, 2, 2, 2>>
  /\ input.num = 20 => TierSizes(getWeights(input.num)) = <<5, 5, 5, 5>>

\* C30 as amended: the capacity-10 weight vector has four tiers, of three,
\* two, two and three positions, weighing 5, 4, 3 and 2; the capacity-20
\* vector has four tiers of five positions each, each weighing half of the
\* capacity-10 tier of the same rank (weights are kept in halves).
C30_PlateausOfSource ==
  LET weights == getWeights(input.num)
  IN  /\ input.num = 10 =>
           /\ TierSizes(weights) = <<3, 2, 2, 3>>
           /\ TierWeights(weights) = <<2 * 5, 2 * 4, 2 * 3, 2 * 2>>
      /\ input.num = 20 =>
           /\ TierSizes(weights) = <<5, 5, 5, 5>>
           /\ TierWeights(weights) = <<5, 4, 3, 2>>

\* a full user window has been scored, with every weight used
C30_Witness ==
  /\ output # Undefined
  /\ input.num = NUM_USER_MESSAGES
  /\ Len(input.messageRatings) = NUM_USER_MESSAGES
  /\ output # 70

(***************************************************************************)
(* Order properties of the score.                                          *)
(***************************************************************************)
\* C31: for two windows of equal length, at most the capacity, that differ
\* in one position, the window with the larger rating at that position has
\* a score greater than or equal to the other's: raising a rating never
\* lowers the score (and lowering one never raises it).
C31_Monotone ==
  output # Undefined =>
    \A i \in 1..Len(input.messageRatings), v \in ScoreRatings :
      LET other == computePsychoPass([input.messageRatings EXCEPT ![i] = v],
                                     input.num)
      IN  /\ v >= input.messageRatings[i] => other >= output
          /\ v <= input.messageRatings[i] => other <= output

\* a window scored 0 by the clamp: raising one of its ratings leaves the
\* score at 0 and raising another lifts it above 0
C31_Witness ==
  /\ output = 0
  /\ \E i, j \in 1..Len(input.messageRatings), v, w \in ScoreRatings :
       /\ v > input.messageRatings[i]
       /\ w > input.messageRatings[j]
       /\ computePsychoPass([input.messageRatings EXCEPT ![i] = v],
                            input.num) = 0
       /\ computePsychoPass([input.messageRatings EXCEPT ![j] = w],
                            input.num) > 0

(***************************************************************************)
(* The countdown of a channel's monitor timeout.                           *)
(***************************************************************************)
\* what the calls made so far leave as the timeout of channel c
Countdown(c) ==
  IF c \notin DOMAIN monitor.given THEN 0
  ELSE IF monitor.given[c] >= 0
    THEN Max(0, monitor.given[c] - monitor.ticks[c])
    ELSE monitor.given[c]

C33_FirstMatch ==
  (/\ call.op = "findIndex"
   /\ Cardinality({k \in 1..Len(leaderboard) :
                     leaderboard[k].value = call.target}) > 1) =>
    /\ Defined(leaderboard, returned)
    /\ At(leaderboard, returned).value = call.target
    /\ \A k \in 0..(returned - 1) : At(leaderboard, k).value # call.target

=========================================================================
